---- MODULE Spec2Model ----
(***************************************************************************)
(* State-reconciliation modules of the NetApp Ansible collections:         *)
(*   na_ontap_igroup          (ONTAP initiator groups, ZAPI or REST)        *)
(*   azure_rm_netapp_volume   (Azure NetApp Files volumes)                  *)
(* Each run of a module is one action: it observes the remote resource,    *)
(* decides create / delete / rename / modify, issues the remote calls and  *)
(* reports changed.  A remote call succeeds unless it addresses a resource  *)
(* that does not exist, creates one that exists, or names no initiator.    *)
(***************************************************************************)
EXTENDS Integers, Sequences, FiniteSets, TLC

VARIABLES
    igroups,        \* ONTAP: igroup name -> record, for the igroups of the vserver
    module_params,  \* na_ontap_igroup: AnsibleModule.params, each option {} (None) or {value}
    rest_api,       \* na_ontap_igroup: [is_rest, ontap_99] answers of OntapRestAPI
    runs,           \* na_ontap_igroup: one record per finished run of apply
    volume,         \* Azure: the volume of the given name, or NoVolume
    az_params,      \* azure_rm_netapp_volume: AnsibleModule.params
    az_runs         \* azure_rm_netapp_volume: one record per finished run of exec_module

vars == <<igroups, module_params, rest_api, runs, volume, az_params, az_runs>>

\* Number of consecutive runs of a module with the same parameters.
MaxRuns == 2

(***************************************************************************)
(* Values                                                                  *)
(***************************************************************************)
None == "None"                  \* Python None, for string-valued places
NoneDict == [none |-> TRUE]     \* Python None, where a dict is expected
EmptyDict == [k \in {} |-> None]

NAME == "ig_new"                \* the name option (required)
FROM_NAME == "ig_old"           \* the from_name option, when given
VSERVER == "vs1"

WWN_UPPER == "20:00:AB"         \* a WWN as a user may write it
WWN_LOWER == "20:00:ab"         \* the same WWN as ONTAP reports it
IQN == "iqn.a"

\* The order in which ONTAP lists the initiators of an igroup.
InitiatorOrder == <<WWN_LOWER, IQN>>

InList(x, list) == \E i \in 1..Len(list) : list[i] = x

ListOf(S) == SelectSeq(InitiatorOrder, LAMBDA x : x \in S)

SetOf(list) == {list[i] : i \in 1..Len(list)}

\* dict.pop(key, None) and a dict literal with one more key.
Pop(d, key) == [k \in DOMAIN d \ {key} |-> d[k]]

(***************************************************************************)
(* NetAppModule helper (module_utils/netapp_module.py)                     *)
(***************************************************************************)
\* set_parameters: keep the options that are not None.
set_parameters(ansible_params) ==
    [k \in {p \in DOMAIN ansible_params : ansible_params[p] # {}} |->
        CHOOSE v \in ansible_params[k] : TRUE]

\* sanitize_wwn: an initiator in WWN format is converted to lower case.
sanitize_wwn(initiator) ==
    IF initiator = WWN_UPPER THEN WWN_LOWER ELSE initiator

\* get_cd_action: [ret, changed]; a change of state sets changed.
get_cd_action(changed, current, desired) ==
    LET desired_state == IF "state" \in DOMAIN desired THEN desired.state ELSE "present"
    IN  IF current = NoneDict /\ desired_state = "absent"
        THEN [ret |-> None, changed |-> changed]
        ELSE IF current # NoneDict /\ desired_state = "present"
        THEN [ret |-> None, changed |-> changed]
        ELSE IF current # NoneDict
        THEN [ret |-> "delete", changed |-> TRUE]
        ELSE [ret |-> "create", changed |-> TRUE]

\* is_rename_action: None for error, True for a rename, False otherwise.
na_helper_is_rename_action(changed, source, target) ==
    IF source = NoneDict /\ target = NoneDict
    THEN [ret |-> "None", changed |-> changed]
    ELSE IF source # NoneDict /\ target = NoneDict
    THEN [ret |-> "True", changed |-> TRUE]
    ELSE [ret |-> "False", changed |-> changed]

Count(x, list) == Cardinality({i \in 1..Len(list) : list[i] = x})

\* Two lists differ when some element occurs in one more often than in the other.
ListsDiffer(current, desired) ==
    \E x \in SetOf(current) \cup SetOf(desired) : Count(x, current) # Count(x, desired)

\* get_modified_attributes: the desired value of every key of current that
\* is also desired and differs; a non-empty result sets changed.
get_modified_attributes(changed, current, desired) ==
    LET keys == IF current = NoneDict THEN {}
                ELSE {k \in DOMAIN current \cap DOMAIN desired :
                        IF k = "initiators"
                        THEN ListsDiffer(current[k], desired[k])
                        ELSE current[k] # desired[k]}
        modified == [k \in keys |-> desired[k]]
    IN  [ret |-> modified, changed |-> changed \/ keys # {}]

(***************************************************************************)
(* The ONTAP side: what a call does to the igroups of the vserver          *)
(***************************************************************************)
UUID_NEW == "uuid-new"          \* the UUID ONTAP gives to a created igroup
DEFAULT_OS == "default"         \* os type of an igroup created without one
DEFAULT_PROTOCOL == "mixed"     \* protocol of an igroup created without one

\* A run in progress: the remote igroups, the mutating calls issued so far,
\* and whether fail_json has ended the run.
World(ig) == [igroups |-> ig, calls |-> <<>>, failed |-> FALSE, msg |-> ""]

fail_json(w, msg) == IF w.failed THEN w ELSE [w EXCEPT !.failed = TRUE, !.msg = msg]

Issue(w, call) == [w EXCEPT !.calls = Append(@, call)]

NameOfUuid(ig, uuid) == {n \in DOMAIN ig : ig[n].uuid = uuid}

Without(ig, name) == [n \in DOMAIN ig \ {name} |-> ig[n]]

With(ig, name, rec) == [n \in DOMAIN ig \cup {name} |-> IF n = name THEN rec ELSE ig[n]]

\* ONTAP refuses an initiator whose name is empty.
ValidInitiators(list) == ~InList("", list)

\* The record ONTAP keeps for a new igroup, from the options of the create call.
NewIgroup(options) ==
    [uuid      |-> UUID_NEW,
     os_type   |-> IF "os_type" \in DOMAIN options THEN options.os_type ELSE DEFAULT_OS,
     protocol  |-> IF "protocol" \in DOMAIN options THEN options.protocol ELSE DEFAULT_PROTOCOL,
     portset   |-> IF "portset" \in DOMAIN options THEN options.portset ELSE None,
     initiators |-> IF "initiators" \in DOMAIN options THEN SetOf(options.initiators) ELSE {}]

(***************************************************************************)
(* na_ontap_igroup.py                                                      *)
(***************************************************************************)
rest_modify_zapi_to_rest == [bind_portset |-> "portset", name |-> "name", os_type |-> "os_type"]

\* __init__: the parameters, with the initiators sanitized.
init_parameters(params) ==
    LET parameters == set_parameters(params)
    IN  IF params.initiators # {}
        THEN [parameters EXCEPT !.initiators =
                [i \in 1..Len(@) |-> sanitize_wwn(@[i])]]
        ELSE parameters

\* __init__: REST is used unless an option needs ONTAP 9.9 and the system is older.
init_use_rest(api, parameters) ==
    LET too_old_for_rest == api.is_rest /\ ~api.ontap_99
    IN  IF too_old_for_rest /\ "bind_portset" \in DOMAIN parameters
        THEN FALSE
        ELSE api.is_rest

get_igroup_rest(ig, parameters, name) ==
    IF name \in DOMAIN ig
    THEN [name |-> name,
          uuid |-> ig[name].uuid,
          vserver |-> parameters.vserver,
          os_type |-> ig[name].os_type,
          initiator_group_type |-> ig[name].protocol,
          initiators |-> ListOf(ig[name].initiators)]
    ELSE NoneDict

get_igroup(ig, parameters, use_rest, name) ==
    IF use_rest THEN get_igroup_rest(ig, parameters, name)
    ELSE IF name \in DOMAIN ig
    THEN LET current == [initiators |-> ListOf(ig[name].initiators),
                         vserver |-> parameters.vserver,
                         os_type |-> ig[name].os_type,
                         initiator_group_type |-> ig[name].protocol]
         IN  IF ig[name].portset # None
             THEN current @@ [bind_portset |-> ig[name].portset]
             ELSE current
    ELSE NoneDict

\* modify_initiator: igroup-add or igroup-remove of one initiator, by igroup name.
modify_initiator(w, parameters, initiator, zapi) ==
    IF w.failed THEN w
    ELSE LET name == parameters.name
             w1 == Issue(w, [op |-> zapi, target |-> name, arg |-> initiator])
         IN  IF name \notin DOMAIN w.igroups \/ ~ValidInitiators(<<initiator>>)
             THEN fail_json(w1, "Error modifying igroup initiator")
             ELSE [w1 EXCEPT !.igroups[name].initiators =
                        IF zapi = "igroup-add" THEN @ \cup {initiator} ELSE @ \ {initiator}]

add_initiators_rest(w, uuid, initiators) ==
    IF w.failed THEN w
    ELSE LET w1 == Issue(w, [op |-> "POST initiators", target |-> uuid, arg |-> initiators])
             names == NameOfUuid(w.igroups, uuid)
         IN  IF names = {} \/ ~ValidInitiators(initiators)
             THEN fail_json(w1, "Error: POST initiators refused")
             ELSE LET name == CHOOSE n \in names : TRUE
                  IN  [w1 EXCEPT !.igroups[name].initiators = @ \cup SetOf(initiators)]

RECURSIVE zapi_add_each(_, _, _)
zapi_add_each(w, parameters, initiators) ==
    IF initiators = <<>> THEN w
    ELSE zapi_add_each(modify_initiator(w, parameters, Head(initiators), "igroup-add"),
                       parameters, Tail(initiators))

\* add_initiators: add the desired initiators that are not current.
add_initiators(w, parameters, use_rest, uuid, current_initiators) ==
    IF "initiators" \notin DOMAIN parameters \/ parameters.initiators = <<"">>
    THEN w
    ELSE LET initiators_to_add ==
                 SelectSeq(parameters.initiators, LAMBDA i : ~InList(i, current_initiators))
         IN  IF use_rest /\ uuid # None /\ initiators_to_add # <<>>
             THEN add_initiators_rest(w, uuid, initiators_to_add)
             ELSE zapi_add_each(w, parameters, initiators_to_add)

delete_initiator_rest(w, uuid, initiator) ==
    IF w.failed THEN w
    ELSE LET w1 == Issue(w, [op |-> "DELETE initiator", target |-> uuid, arg |-> initiator])
             names == NameOfUuid(w.igroups, uuid)
         IN  IF names = {}
             THEN fail_json(w1, "Error: igroup not found")
             ELSE LET name == CHOOSE n \in names : TRUE
                  IN  [w1 EXCEPT !.igroups[name].initiators = @ \ {initiator}]

RECURSIVE remove_each(_, _, _, _, _)
remove_each(w, parameters, use_rest, uuid, initiators) ==
    IF initiators = <<>> THEN w
    ELSE LET initiator == Head(initiators)
             desired == IF "initiators" \in DOMAIN parameters
                        THEN parameters.initiators ELSE <<>>
             w1 == IF ~InList(initiator, desired)
                   THEN IF use_rest
                        THEN delete_initiator_rest(w, uuid, initiator)
                        ELSE modify_initiator(w, parameters, initiator, "igroup-remove")
                   ELSE w
         IN  remove_each(w1, parameters, use_rest, uuid, Tail(initiators))

\* Mutant: every current initiator is removed, desired or not.
remove_initiators_all(w, parameters, use_rest, uuid, current_initiators) ==
    remove_each(w, Pop(parameters, "initiators"), use_rest, uuid, current_initiators)

\* remove_initiators: remove the current initiators that are not desired.
remove_initiators(w, parameters, use_rest, uuid, current_initiators) ==
    remove_each(w, parameters, use_rest, uuid, current_initiators)

create_igroup_rest(w, parameters) ==
    IF w.failed THEN w
    ELSE LET mapping == [initiator_group_type |-> "protocol",
                         bind_portset |-> "portset",
                         initiators |-> "initiators"]
             given == DOMAIN mapping \cap DOMAIN parameters
             body == [name |-> parameters.name,
                      os_type |-> parameters.os_type,
                      svm |-> parameters.vserver]
                     @@ [f \in {mapping[o] : o \in given} |->
                            parameters[CHOOSE o \in given : mapping[o] = f]]
             w1 == Issue(w, [op |-> "POST igroup", target |-> parameters.name, arg |-> body])
         IN  IF parameters.name \in DOMAIN w.igroups
                \/ ("initiators" \in DOMAIN body /\ ~ValidInitiators(body.initiators))
             THEN fail_json(w1, "Error: POST igroup refused")
             ELSE [w1 EXCEPT !.igroups = With(@, parameters.name, NewIgroup(body))]

\* create_igroup, ZAPI: igroup-create, then the initiators one by one.
create_igroup_zapi(w, parameters) ==
    IF w.failed THEN w
    ELSE LET mapping == [os_type |-> "os_type",
                         initiator_group_type |-> "protocol",
                         bind_portset |-> "portset"]
             given == DOMAIN mapping \cap DOMAIN parameters
             options == [f \in {mapping[o] : o \in given} |->
                            parameters[CHOOSE o \in given : mapping[o] = f]]
             w1 == Issue(w, [op |-> "igroup-create", target |-> parameters.name, arg |-> options])
         IN  IF parameters.name \in DOMAIN w.igroups
             THEN fail_json(w1, "Error provisioning igroup")
             ELSE add_initiators(
                    [w1 EXCEPT !.igroups = With(@, parameters.name, NewIgroup(options))],
                    parameters, FALSE, None, <<>>)

\* Mutant: the REST branch does not return, and the ZAPI create follows it.
create_igroup_falls_through(w, parameters, use_rest) ==
    create_igroup_zapi(IF use_rest THEN create_igroup_rest(w, parameters) ELSE w, parameters)

create_igroup(w, parameters, use_rest) ==
    IF use_rest THEN create_igroup_rest(w, parameters)
    ELSE create_igroup_zapi(w, parameters)

\* modify_igroup_rest: one PATCH with the modified options, by UUID.
modify_igroup_rest(w, uuid, modify) ==
    IF w.failed THEN w
    ELSE IF \E option \in DOMAIN modify : option \notin DOMAIN rest_modify_zapi_to_rest
    THEN fail_json(w, "Error: modifying is not supported in REST")
    ELSE LET body == [f \in {rest_modify_zapi_to_rest[o] : o \in DOMAIN modify} |->
                        modify[CHOOSE o \in DOMAIN modify : rest_modify_zapi_to_rest[o] = f]]
         IN  IF DOMAIN body = {} THEN w
             ELSE LET w1 == Issue(w, [op |-> "PATCH igroup", target |-> uuid, arg |-> body])
                      names == NameOfUuid(w.igroups, uuid)
                  IN  IF names = {} \/ ("name" \in DOMAIN body /\ body.name \in DOMAIN w.igroups)
                      THEN fail_json(w1, "Error: PATCH refused")
                      ELSE LET old == CHOOSE n \in names : TRUE
                               rec == w.igroups[old]
                               new == [rec EXCEPT
                                         !.os_type = IF "os_type" \in DOMAIN body
                                                     THEN body.os_type ELSE @,
                                         !.portset = IF "portset" \in DOMAIN body
                                                     THEN body.portset ELSE @]
                               name == IF "name" \in DOMAIN body THEN body.name ELSE old
                           IN  [w1 EXCEPT !.igroups = With(Without(@, old), name, new)]

\* delete_igroup: under REST by UUID, under ZAPI by name.
delete_igroup(w, parameters, use_rest, uuid) ==
    IF w.failed THEN w
    ELSE IF use_rest
    THEN LET w1 == Issue(w, [op |-> "DELETE igroup", target |-> uuid,
                             arg |-> parameters.force_remove_initiator])
             names == NameOfUuid(w.igroups, uuid)
         IN  IF names = {} THEN fail_json(w1, "Error: igroup not found")
             ELSE [w1 EXCEPT !.igroups = Without(@, CHOOSE n \in names : TRUE)]
    ELSE LET w1 == Issue(w, [op |-> "igroup-destroy", target |-> parameters.name,
                             arg |-> parameters.force_remove_initiator])
         IN  IF parameters.name \notin DOMAIN w.igroups
             THEN fail_json(w1, "Error deleting igroup")
             ELSE [w1 EXCEPT !.igroups = Without(@, parameters.name)]

\* rename_igroup: igroup-rename from from_name to name (ZAPI only).
rename_igroup(w, parameters, use_rest) ==
    IF w.failed THEN w
    ELSE IF use_rest
    THEN fail_json(w, "Internal error, should not call rename, but use modify")
    ELSE LET from == parameters.from_name
             w1 == Issue(w, [op |-> "igroup-rename", target |-> from, arg |-> parameters.name])
         IN  IF from \notin DOMAIN w.igroups \/ parameters.name \in DOMAIN w.igroups
             THEN fail_json(w1, "Error renaming igroup")
             ELSE [w1 EXCEPT !.igroups = With(Without(@, from), parameters.name, w.igroups[from])]

report_error_in_modify(w, modify, context) ==
    IF DOMAIN modify # {}
    THEN fail_json(w, IF context = "ZAPI"
                      THEN "Error: modifying is not supported in ZAPI"
                      ELSE "Error: modifying is not supported in REST")
    ELSE w

\* Mutant: nothing is validated before the calls.
validate_modify_skipped(w, modify, use_rest) == w

\* validate_modify: fail on the options that cannot be modified.
validate_modify(w, modify, use_rest) ==
    IF w.failed \/ modify = NoneDict \/ DOMAIN modify = {} THEN w
    ELSE LET modify_local == Pop(modify, "initiators")
         IN  IF ~use_rest
             THEN report_error_in_modify(w, modify_local, "ZAPI")
             ELSE report_error_in_modify(w,
                    [k \in DOMAIN modify_local \ DOMAIN rest_modify_zapi_to_rest |->
                        modify_local[k]], "REST")

\* Mutant: a rename does not make the igroup called from_name the current one.
rename_outcome_keeps_current(w, cd_action, current, old, rename) ==
    [w |-> IF rename.ret = "None"
           THEN fail_json(w, "Error: igroup with from_name not found") ELSE w,
     cd_action |-> IF rename.ret = "True" THEN None ELSE cd_action,
     rename |-> rename.ret, current |-> current, changed |-> rename.changed]

\* is_rename_action, lines 492-497: what the answer of the helper leads to.
rename_outcome(w, cd_action, current, old, rename) ==
    IF rename.ret = "None"
    THEN [w |-> fail_json(w, "Error: igroup with from_name not found"),
          cd_action |-> cd_action, rename |-> rename.ret,
          current |-> current, changed |-> rename.changed]
    ELSE IF rename.ret = "True"
    THEN [w |-> w, cd_action |-> None, rename |-> rename.ret,
          current |-> old, changed |-> rename.changed]
    ELSE [w |-> w, cd_action |-> cd_action, rename |-> rename.ret,
          current |-> current, changed |-> rename.changed]

\* Mutant: a missing from_name igroup is not an error, and the create stays.
is_rename_with_missing_source_creates(w, cd_action, current, old, changed) ==
    IF old = NoneDict
    THEN [w |-> w, cd_action |-> cd_action, rename |-> "False",
          current |-> current, changed |-> changed]
    ELSE rename_outcome(w, cd_action, current, old,
                        na_helper_is_rename_action(changed, old, current))

is_rename_with(w, cd_action, current, old, changed) ==
    rename_outcome(w, cd_action, current, old,
                   na_helper_is_rename_action(changed, old, current))

\* is_rename_action: look up from_name; a rename replaces the create.
is_rename_action(w, parameters, use_rest, changed, cd_action, current) ==
    is_rename_with(w, cd_action, current,
                   get_igroup(w.igroups, parameters, use_rest, parameters.from_name),
                   changed)

\* Mutant: os_type is required for every create, under ZAPI as under REST.
apply_validate_os_type_always(parameters, use_rest, rn, md) ==
    [w |-> validate_modify(
             IF rn.cd_action = "create" /\ "os_type" \notin DOMAIN parameters
             THEN fail_json(rn.w,
                    "Error: os_type is a required parameter when creating an igroup with REST")
             ELSE rn.w,
             md.modify, use_rest),
     cd_action |-> rn.cd_action, rename |-> md.rename, modify |-> md.modify,
     current |-> rn.current,
     uuid |-> IF rn.current # NoneDict /\ use_rest THEN rn.current.uuid ELSE None,
     changed |-> md.changed]

\* apply, lines 514-518: the UUID, the os_type needed by a REST create, and
\* the validation of modify.  The result d of the first half of apply is
\* [w, cd_action, rename, modify, current, uuid, changed].
apply_validate(parameters, use_rest, rn, md) ==
    [w |-> validate_modify(
             IF rn.cd_action = "create" /\ use_rest /\ "os_type" \notin DOMAIN parameters
             THEN fail_json(rn.w,
                    "Error: os_type is a required parameter when creating an igroup with REST")
             ELSE rn.w,
             md.modify, use_rest),
     cd_action |-> rn.cd_action, rename |-> md.rename, modify |-> md.modify,
     current |-> rn.current,
     uuid |-> IF rn.current # NoneDict /\ use_rest THEN rn.current.uuid ELSE None,
     changed |-> md.changed]

\* apply, lines 509-513: under REST a change of name is part of modify,
\* under ZAPI it is left to the rename.
apply_modify_name(use_rest, rn, m) ==
    [modify |-> IF use_rest THEN m.ret ELSE Pop(m.ret, "name"),
     rename |-> IF use_rest THEN "False" ELSE rn.rename,
     changed |-> m.changed]

\* apply, lines 507-518.
apply_modify(parameters, use_rest, rn) ==
    apply_validate(parameters, use_rest, rn,
        IF ~rn.w.failed /\ rn.cd_action = None /\ parameters.state = "present"
        THEN apply_modify_name(use_rest, rn,
                get_modified_attributes(rn.changed, rn.current, parameters))
        ELSE [modify |-> NoneDict, rename |-> rn.rename, changed |-> rn.changed])

\* apply, lines 505-518.
apply_rename(w0, parameters, use_rest, current, cd) ==
    apply_modify(parameters, use_rest,
        IF cd.ret = "create" /\ "from_name" \in DOMAIN parameters
        THEN is_rename_action(w0, parameters, use_rest, cd.changed, cd.ret, current)
        ELSE [w |-> w0, cd_action |-> cd.ret, rename |-> None,
              current |-> current, changed |-> cd.changed])

\* apply, lines 504-518.
apply_cd_action(w0, parameters, use_rest, current) ==
    apply_rename(w0, parameters, use_rest, current,
                 get_cd_action(FALSE, current, parameters))

\* apply, first half: observe, decide and validate.
apply_decide(ig, parameters, use_rest) ==
    apply_cd_action(World(ig), parameters, use_rest,
                    get_igroup(ig, parameters, use_rest, parameters.name))

\* apply, lines 530-532: what is left of modify goes into one PATCH.
apply_modify_rest(d, w, modify) ==
    IF DOMAIN modify # {}
    THEN modify_igroup_rest(w, d.uuid, modify)
    ELSE w

\* Mutant: the initiators are also removed in a run that deletes the igroup.
apply_modify_calls_after_delete(d, parameters, use_rest, w) ==
    IF d.cd_action = "delete"
    THEN remove_initiators(w, parameters, use_rest, d.uuid, d.current.initiators)
    ELSE IF d.modify # NoneDict /\ DOMAIN d.modify # {}
    THEN apply_modify_rest(d,
            add_initiators(
                remove_initiators(w, parameters, use_rest, d.uuid, d.current.initiators),
                parameters, use_rest, d.uuid, d.current.initiators),
            Pop(d.modify, "initiators"))
    ELSE w

\* apply, lines 527-532: the initiators, then the other modifications.
apply_modify_calls(d, parameters, use_rest, w) ==
    IF d.modify # NoneDict /\ DOMAIN d.modify # {}
    THEN apply_modify_rest(d,
            add_initiators(
                remove_initiators(w, parameters, use_rest, d.uuid, d.current.initiators),
                parameters, use_rest, d.uuid, d.current.initiators),
            Pop(d.modify, "initiators"))
    ELSE w

\* apply, the mutating calls of a run that changes something.
apply_calls(d, parameters, use_rest) ==
    apply_modify_calls(d, parameters, use_rest,
        IF d.rename = "True" THEN rename_igroup(d.w, parameters, use_rest)
        ELSE IF d.cd_action = "create" THEN create_igroup(d.w, parameters, use_rest)
        ELSE IF d.cd_action = "delete"
             THEN delete_igroup(d.w, parameters, use_rest, d.uuid)
        ELSE d.w)

\* Mutant: check mode is not looked at.
apply_execute_ignores_check_mode(d, parameters, use_rest, check_mode) ==
    IF d.changed
    THEN apply_calls(d, parameters, use_rest)
    ELSE d.w

\* apply, second half: nothing is called in check mode or without a change.
apply_execute(d, parameters, use_rest, check_mode) ==
    IF d.changed /\ ~check_mode
    THEN apply_calls(d, parameters, use_rest)
    ELSE d.w

\* The record of a run.  changed is na_helper.changed, which exit_json
\* reports unless the run has failed.
RunRecord(ig, use_rest, check_mode, d, w) ==
    [check_mode |-> check_mode, use_rest |-> use_rest, pre |-> ig, post |-> w.igroups,
     calls |-> w.calls, failed |-> w.failed, msg |-> w.msg,
     changed |-> d.changed,
     cd_action |-> d.cd_action, rename |-> d.rename, modify |-> d.modify]

apply_with(ig, parameters, use_rest, check_mode, d) ==
    RunRecord(ig, use_rest, check_mode, d,
              apply_execute(d, parameters, use_rest, check_mode))

apply_as(ig, parameters, use_rest, check_mode) ==
    apply_with(ig, parameters, use_rest, check_mode,
               apply_decide(ig, parameters, use_rest))

apply_init(ig, parameters, api, check_mode) ==
    apply_as(ig, parameters, init_use_rest(api, parameters), check_mode)

\* apply: one run of the module, from __init__ to exit_json or fail_json.
apply(ig, params, api, check_mode) ==
    apply_init(ig, init_parameters(params), api, check_mode)

(***************************************************************************)
(* Specification of na_ontap_igroup                                        *)
(***************************************************************************)
OsTypes == {"linux", "windows"}
Protocols == {"iscsi", "fcp"}
Portsets == {"ps1", "ps2"}
InitiatorLists == {<<"">>, <<>>, <<WWN_UPPER>>, <<IQN, WWN_LOWER>>}

Opt(S) == {{}} \cup {{v} : v \in S}

IgroupParams ==
    [state : {{"present"}}, name : {{NAME}}, from_name : Opt({FROM_NAME}),
     os_type : Opt(OsTypes), initiator_group_type : Opt(Protocols),
     initiators : Opt(InitiatorLists), vserver : {{VSERVER}},
     force_remove_initiator : {{FALSE}}, bind_portset : Opt(Portsets)]
    \cup
    [state : {{"absent"}}, name : {{NAME}}, from_name : {{}},
     os_type : {{}}, initiator_group_type : {{}},
     initiators : {{}}, vserver : {{VSERVER}},
     force_remove_initiator : {{FALSE}, {TRUE}}, bind_portset : {{}}]

\* The igroups ONTAP may hold before the first run.
NamedIgroups ==
    [uuid : {"uuid-1"}, os_type : {"linux"}, protocol : {"iscsi"},
     portset : {None, "ps1"}, initiators : SUBSET {WWN_LOWER, IQN}]

FromIgroups ==
    [uuid : {"uuid-2"}, os_type : {"linux"}, protocol : {"iscsi"},
     portset : {None}, initiators : {{}, {IQN}, {WWN_LOWER, IQN}}]

InitialIgroups ==
    {EmptyDict}
    \cup {(NAME :> a) : a \in NamedIgroups}
    \cup {(FROM_NAME :> b) : b \in FromIgroups}
    \cup {(NAME :> a) @@ (FROM_NAME :> b) : a \in NamedIgroups, b \in FromIgroups}

NoVolume == [none |-> TRUE]

InitIgroup ==
    /\ module_params \in IgroupParams
    /\ igroups \in InitialIgroups
    /\ rest_api \in [is_rest : BOOLEAN, ontap_99 : BOOLEAN]
    /\ (~rest_api.is_rest => rest_api.ontap_99)
    /\ runs = <<>>
    /\ volume = NoVolume
    /\ az_params = EmptyDict
    /\ az_runs = <<>>

\* One run of the module, in check mode or not.
Apply ==
    /\ Len(runs) < MaxRuns
    /\ \E check_mode \in BOOLEAN :
         LET r == apply(igroups, module_params, rest_api, check_mode)
         IN  /\ igroups' = r.post
             /\ runs' = Append(runs, r)
    /\ UNCHANGED <<module_params, rest_api, volume, az_params, az_runs>>

NextIgroup == Apply

SpecIgroup == InitIgroup /\ [][NextIgroup]_vars

(***************************************************************************)
(* azure_rm_netapp_volume.py                                               *)
(***************************************************************************)
ONE_GIB == 1073741824

\* A byte count, as its digits in base 1024, least significant first
\* (a count of bytes does not fit the integers of the model checker).
RECURSIVE Digits(_)
Digits(n) == IF n < 1024 THEN <<n>> ELSE <<n % 1024>> \o Digits(n \div 1024)

RECURSIVE TimesCarry(_, _, _)
TimesCarry(digits, k, carry) ==
    IF digits = <<>>
    THEN IF carry = 0 THEN <<>> ELSE Digits(carry)
    ELSE LET v == Head(digits) * k + carry
         IN  <<v % 1024>> \o TimesCarry(Tail(digits), k, v \div 1024)

\* value *= ONE_GIB
Times(n, k) == TimesCarry(Digits(n), k, 0)

SUBSCRIPTION == "sub-1"
RESOURCE_GROUP == "rg-1"

\* The Azure side: defaults of a volume created without the option.
DEFAULT_SIZE_GIB == 100
DEFAULT_SERVICE_LEVEL == "Premium"
DEFAULT_PROTOCOL_TYPES == <<"NFSv3">>

\* str.lower() of a protocol name.
lower(x) ==
    IF x = "NFSv3" THEN "nfsv3"
    ELSE IF x = "NFSv4.1" THEN "nfsv4.1"
    ELSE IF x = "CIFS" THEN "cifs"
    ELSE x

get_azure_netapp_volume(vol) == vol

\* get_export_policy_rules: a policy only when NFSv4.1 is among the protocols.
get_export_policy_rules(parameters) ==
    IF "protocol_types" \notin DOMAIN parameters THEN NoneDict
    ELSE LET lowered == [i \in 1..Len(parameters.protocol_types) |->
                            lower(parameters.protocol_types[i])]
         IN  IF InList("nfsv4.1", lowered)
             THEN LET ptypes == Append(lowered, "nfsv41")
                  IN  [rule_index |-> 1, allowed_clients |-> "0.0.0.0/0",
                       unix_read_write |-> TRUE,
                       cifs |-> InList("cifs", ptypes),
                       nfsv3 |-> InList("nfsv3", ptypes),
                       nfsv41 |-> InList("nfsv41", ptypes)]
             ELSE NoneDict

\* Mutant: the size is passed as given, in GiB, under the name usage_threshold.
volume_body_size_unconverted(parameters) ==
    LET given == {"protocol_types", "service_level", "size"} \cap DOMAIN parameters
        attr(a) == IF a = "size" THEN "usage_threshold" ELSE a
        options == [f \in {attr(a) : a \in given} |->
                      IF f = "usage_threshold"
                      THEN Digits(parameters.size)
                      ELSE parameters[f]]
        rules == get_export_policy_rules(parameters)
        subnet_id == <<SUBSCRIPTION,
                       IF "vnet_resource_group_for_subnet" \notin DOMAIN parameters
                       THEN parameters.resource_group
                       ELSE parameters.vnet_resource_group_for_subnet,
                       parameters.virtual_network,
                       parameters.subnet_name>>
    IN  [location |-> parameters.location,
         creation_token |-> parameters.file_path,
         subnet_id |-> subnet_id]
        @@ options
        @@ (IF rules # NoneDict THEN [export_policy |-> rules] ELSE EmptyDict)

\* The body of the create_or_update request.
volume_body(parameters) ==
    LET given == {"protocol_types", "service_level", "size"} \cap DOMAIN parameters
        attr(a) == IF a = "size" THEN "usage_threshold" ELSE a
        options == [f \in {attr(a) : a \in given} |->
                      IF f = "usage_threshold"
                      THEN Times(ONE_GIB, parameters.size)
                      ELSE parameters[f]]
        rules == get_export_policy_rules(parameters)
        subnet_id == <<SUBSCRIPTION,
                       IF "vnet_resource_group_for_subnet" \notin DOMAIN parameters
                       THEN parameters.resource_group
                       ELSE parameters.vnet_resource_group_for_subnet,
                       parameters.virtual_network,
                       parameters.subnet_name>>
    IN  [location |-> parameters.location,
         creation_token |-> parameters.file_path,
         subnet_id |-> subnet_id]
        @@ options
        @@ (IF rules # NoneDict THEN [export_policy |-> rules] ELSE EmptyDict)

\* The volume Azure keeps for a create_or_update request.
NewVolume(body, mount_targets) ==
    [creation_token |-> body.creation_token,
     usage_threshold |-> IF "usage_threshold" \in DOMAIN body THEN body.usage_threshold
                         ELSE Times(ONE_GIB, DEFAULT_SIZE_GIB),
     service_level |-> IF "service_level" \in DOMAIN body THEN body.service_level
                       ELSE DEFAULT_SERVICE_LEVEL,
     protocol_types |-> IF "protocol_types" \in DOMAIN body THEN body.protocol_types
                        ELSE DEFAULT_PROTOCOL_TYPES,
     mount_targets |-> mount_targets]

\* create_azure_netapp_volume; v is [volume, calls, failed, msg].
create_azure_netapp_volume(v, parameters, mount_targets) ==
    LET body == volume_body(parameters)
    IN  [v EXCEPT !.calls = Append(@, [op |-> "create_or_update", body |-> body]),
                  !.volume = NewVolume(body, mount_targets)]

delete_azure_netapp_volume(v, parameters) ==
    [v EXCEPT !.calls = Append(@, [op |-> "delete", body |-> EmptyDict]),
              !.volume = NoVolume]

\* Mutant: create_or_update is called whenever state is present.
exec_calls_upsert(v0, cd, parameters, check_mode, mount_targets) ==
    IF check_mode THEN v0
    ELSE IF cd.ret = "create" \/ parameters.state = "present"
         THEN create_azure_netapp_volume(v0, parameters, mount_targets)
    ELSE IF cd.ret = "delete"
         THEN delete_azure_netapp_volume(v0, parameters)
    ELSE v0

\* exec_module, the mutating call of a run that changes something.
exec_calls(v0, cd, parameters, check_mode, mount_targets) ==
    IF cd.changed
    THEN IF check_mode THEN v0
         ELSE IF cd.ret = "create"
              THEN create_azure_netapp_volume(v0, parameters, mount_targets)
         ELSE IF cd.ret = "delete"
              THEN delete_azure_netapp_volume(v0, parameters)
         ELSE v0
    ELSE v0

\* exec_module: one run of the module; the record of the run.
\* mount_targets tells whether Azure reports mount targets for a created volume.
exec_module(vol, params, check_mode, mount_targets) ==
    LET parameters == set_parameters(params)
        current == get_azure_netapp_volume(vol)
        cd == get_cd_action(FALSE, current, parameters)
        v0 == [volume |-> vol, calls |-> <<>>, failed |-> FALSE, msg |-> ""]
        v1 == exec_calls(v0, cd, parameters, check_mode, mount_targets)
        v2 == IF parameters.state = "present"
              THEN LET return_info == get_azure_netapp_volume(v1.volume)
                   IN  IF return_info = NoVolume
                       THEN [v1 EXCEPT !.failed = TRUE, !.msg =
                             "Error: volume was created successfully, but cannot be found."]
                       ELSE IF ~return_info.mount_targets
                       THEN [v1 EXCEPT !.failed = TRUE, !.msg =
                             "Error: volume was created successfully, but mount target(s) cannot be found"]
                       ELSE v1
              ELSE v1
    IN  [check_mode |-> check_mode, pre |-> vol, post |-> v2.volume, calls |-> v2.calls,
         failed |-> v2.failed, msg |-> v2.msg, changed |-> cd.changed, cd_action |-> cd.ret]

(***************************************************************************)
(* Specification of azure_rm_netapp_volume                                 *)
(***************************************************************************)
Sizes == {100, 200, 2048}
ServiceLevels == {"Premium", "Ultra"}
ProtocolLists == {<<"NFSv3">>, <<"NFSv4.1">>, <<"CIFS", "NFSv4.1">>}

VolumeParams ==
    [state : {{"present"}}, name : {{"vol1"}}, resource_group : {{RESOURCE_GROUP}},
     file_path : {{"vol1"}}, location : {{"eastus"}},
     subnet_name : {{"subnet1"}}, virtual_network : {{"vnet1"}},
     vnet_resource_group_for_subnet : Opt({"rg-2"}),
     size : Opt(Sizes), service_level : Opt(ServiceLevels),
     protocol_types : Opt(ProtocolLists)]
    \cup
    [state : {{"absent"}}, name : {{"vol1"}}, resource_group : {{RESOURCE_GROUP}},
     file_path : Opt({"vol1"}), location : {{}},
     subnet_name : {{}}, virtual_network : {{}},
     vnet_resource_group_for_subnet : {{}},
     size : {{}}, service_level : {{}}, protocol_types : {{}}]

InitialVolumes ==
    {NoVolume} \cup
    [creation_token : {"vol1"}, usage_threshold : {Times(ONE_GIB, n) : n \in Sizes},
     service_level : ServiceLevels, protocol_types : ProtocolLists,
     mount_targets : BOOLEAN]

InitVolume ==
    /\ az_params \in VolumeParams
    /\ volume \in InitialVolumes
    /\ az_runs = <<>>
    /\ igroups = EmptyDict
    /\ module_params = EmptyDict
    /\ rest_api = [is_rest |-> FALSE, ontap_99 |-> TRUE]
    /\ runs = <<>>

\* One run of the module, in check mode or not.
ExecModule ==
    /\ Len(az_runs) < MaxRuns
    /\ \E check_mode \in BOOLEAN, mount_targets \in BOOLEAN :
         LET r == exec_module(volume, az_params, check_mode, mount_targets)
         IN  /\ volume' = r.post
             /\ az_runs' = Append(az_runs, r)
    /\ UNCHANGED <<az_params, igroups, module_params, rest_api, runs>>

NextVolume == ExecModule

SpecVolume == InitVolume /\ [][NextVolume]_vars

(***************************************************************************)
(* Properties of na_ontap_igroup                                           *)
(***************************************************************************)
CountCalls(calls, ops) == Cardinality({i \in 1..Len(calls) : calls[i].op \in ops})

Creates(r) == CountCalls(r.calls, {"igroup-create", "POST igroup"})
Deletes(r) == CountCalls(r.calls, {"igroup-destroy", "DELETE igroup"})
Renames(r) == CountCalls(r.calls, {"igroup-rename"})
Patches(r) == CountCalls(r.calls, {"PATCH igroup"})
AddCalls(r) == {i \in 1..Len(r.calls) : r.calls[i].op \in {"igroup-add", "POST initiators"}}
RemoveCalls(r) == {i \in 1..Len(r.calls) : r.calls[i].op \in {"igroup-remove", "DELETE initiator"}}

\* The initiators a call adds: one under ZAPI, a list under REST.
AddedBy(call) == IF call.op = "POST initiators" THEN call.arg ELSE <<call.arg>>

RECURSIVE SumLen(_, _)
SumLen(r, S) ==
    IF S = {} THEN 0
    ELSE LET i == CHOOSE x \in S : TRUE
         IN  Len(AddedBy(r.calls[i])) + SumLen(r, S \ {i})

Given(option) == module_params[option] # {}
Value(option) == CHOOSE v \in module_params[option] : TRUE
Present == module_params.state = {"present"}

\* The igroup a run with state=present works on, if any: the one called
\* name, else the one called from_name.
Source(r) ==
    IF NAME \in DOMAIN r.pre THEN {NAME}
    ELSE IF Given("from_name") /\ FROM_NAME \in DOMAIN r.pre THEN {FROM_NAME}
    ELSE {}

\* from_name exists, name does not: the rename case.
RenameCase(r) ==
    Present /\ Given("from_name") /\ FROM_NAME \in DOMAIN r.pre /\ NAME \notin DOMAIN r.pre

\* C1: a second run with the same parameters, after a successful run that
\* was not in check mode, reports changed=false and issues no mutating call.
C1_Idempotent ==
    \A i \in 2..Len(runs) :
        (Present /\ ~runs[i-1].check_mode /\ ~runs[i-1].failed)
            => (~runs[i].failed /\ ~runs[i].changed /\ runs[i].calls = <<>>)

\* No attribute given in the parameters differs from the igroup called name.
AttributesAgree(r) ==
    LET rec == r.pre[NAME]
    IN  /\ Given("os_type") => rec.os_type = Value("os_type")
        /\ Given("initiator_group_type") => rec.protocol = Value("initiator_group_type")
        /\ Given("bind_portset") => rec.portset = Value("bind_portset")
        /\ Given("initiators") =>
              rec.initiators = {sanitize_wwn(x) : x \in SetOf(Value("initiators"))}

C2_Delete(r) ==
    (NAME \in DOMAIN r.pre /\ ~Present) => (Deletes(r) = 1 /\ Creates(r) = 0 /\ r.changed)

C2_None(r) ==
    /\ (NAME \notin DOMAIN r.pre /\ ~Present) => (r.calls = <<>> /\ ~r.changed /\ ~r.failed)
    /\ (NAME \in DOMAIN r.pre /\ Present /\ AttributesAgree(r))
            => (r.calls = <<>> /\ ~r.changed /\ ~r.failed)

\* C2 as stated: without from_name and not in check mode, a missing igroup
\* with state=present gets exactly one create and changed=true; an existing
\* one with state=absent exactly one delete and changed=true; a missing one
\* with state=absent, and an existing one that agrees with the parameters, get
\* no call and changed=false.
C2_ActionSelection_AsStated ==
    \A i \in 1..Len(runs) :
        LET r == runs[i]
        IN  (~r.check_mode /\ ~Given("from_name")) =>
              /\ (NAME \notin DOMAIN r.pre /\ Present) => (Creates(r) = 1 /\ r.changed)
              /\ C2_Delete(r)
              /\ C2_None(r)

\* C2, amended: as stated, but the create is issued only if os_type is
\* given or ZAPI is in use; under REST without os_type apply fails with the
\* os_type error and issues no call.
C2_ActionSelection ==
    \A i \in 1..Len(runs) :
        LET r == runs[i]
        IN  (~r.check_mode /\ ~Given("from_name")) =>
              /\ (NAME \notin DOMAIN r.pre /\ Present) =>
                    IF r.use_rest /\ ~Given("os_type")
                    THEN /\ r.failed
                         /\ r.msg = "Error: os_type is a required parameter when creating an igroup with REST"
                         /\ r.calls = <<>>
                    ELSE Creates(r) = 1 /\ Deletes(r) = 0 /\ r.changed
              /\ C2_Delete(r)
              /\ C2_None(r)

\* A create by a first run and no call by the second, and a REST run that
\* fails for want of os_type, are both reached.
C2_Witness ==
    /\ Len(runs) = 2
    /\ ~Given("from_name") /\ Present
    /\ ~runs[1].check_mode /\ NAME \notin DOMAIN runs[1].pre
    /\ Creates(runs[1]) = 1 /\ ~runs[1].failed /\ runs[1].use_rest
    /\ ~runs[2].check_mode /\ AttributesAgree(runs[2]) /\ runs[2].calls = <<>>

\* The call that renames from_name to name.
RenameIssued(r) ==
    IF r.use_rest
    THEN \E i \in 1..Len(r.calls) :
            /\ r.calls[i].op = "PATCH igroup"
            /\ r.calls[i].target = r.pre[FROM_NAME].uuid
            /\ "name" \in DOMAIN r.calls[i].arg
            /\ r.calls[i].arg.name = NAME
    ELSE \E i \in 1..Len(r.calls) :
            /\ r.calls[i].op = "igroup-rename"
            /\ r.calls[i].target = FROM_NAME
            /\ r.calls[i].arg = NAME

Renamed(r) ==
    /\ RenameIssued(r)
    /\ r.changed /\ ~r.failed
    /\ NAME \in DOMAIN r.post /\ FROM_NAME \notin DOMAIN r.post
    /\ r.post[NAME].uuid = r.pre[FROM_NAME].uuid

\* C3 as stated (read for the runs that are not in check mode): with
\* state=present and from_name given, when from_name exists and name does
\* not, no create and no delete is issued, the igroup is renamed,
\* changed=true is reported and name has the UUID of from_name.
C3_Rename_AsStated ==
    \A i \in 1..Len(runs) :
        (RenameCase(runs[i]) /\ ~runs[i].check_mode) =>
            (Creates(runs[i]) = 0 /\ Deletes(runs[i]) = 0 /\ Renamed(runs[i]))

\* C3, amended: in the rename case no create and no delete is issued and
\* changed is set; when the run is not in check mode and validate_modify
\* does not fail it, the igroup is renamed, changed=true is reported and
\* name has the UUID of from_name.
C3_Rename ==
    \A i \in 1..Len(runs) :
        LET r == runs[i]
        IN  RenameCase(r) =>
              /\ Creates(r) = 0 /\ Deletes(r) = 0
              /\ r.changed
              /\ (~r.check_mode /\ ~r.failed) => Renamed(r)

C3_Witness ==
    \E i \in 1..Len(runs) :
        /\ RenameCase(runs[i]) /\ ~runs[i].check_mode /\ ~runs[i].failed
        /\ Renamed(runs[i])
        /\ runs[i].pre[FROM_NAME].initiators # {}

\* What the initiators option asks for: [''] stands for no initiator.
DesiredInitiators ==
    IF Value("initiators") = <<"">> THEN {}
    ELSE {sanitize_wwn(x) : x \in SetOf(Value("initiators"))}

\* The initiators of the igroup a run works on, before the run.
SourceInitiators(r) == r.pre[CHOOSE n \in Source(r) : TRUE].initiators

Removed(r) == {r.calls[i].arg : i \in RemoveCalls(r)}
Added(r) == UNION {SetOf(AddedBy(r.calls[i])) : i \in AddCalls(r)}

\* C5: after a successful run, not in check mode, with state=present and
\* the initiators given, on an existing igroup, the igroup holds exactly the
\* desired initiators: those current and not desired were removed, once each,
\* those desired and not current were added, once each, and no other.
C5_InitiatorsReplaced ==
    \A i \in 1..Len(runs) :
        LET r == runs[i]
        IN  (Present /\ Given("initiators") /\ Source(r) # {}
                /\ ~r.check_mode /\ ~r.failed) =>
              /\ NAME \in DOMAIN r.post
              /\ r.post[NAME].initiators = DesiredInitiators
              /\ Removed(r) = SourceInitiators(r) \ DesiredInitiators
              /\ Cardinality(RemoveCalls(r)) = Cardinality(Removed(r))
              /\ Added(r) = DesiredInitiators \ SourceInitiators(r)
              /\ SumLen(r, AddCalls(r)) = Cardinality(Added(r))

\* A run that removes one initiator, keeps one and adds none or one.
C5_Witness ==
    \E i \in 1..Len(runs) :
        LET r == runs[i]
        IN  /\ Present /\ Given("initiators") /\ Source(r) # {}
            /\ ~r.check_mode /\ ~r.failed
            /\ Removed(r) # {}
            /\ SourceInitiators(r) \cap DesiredInitiators # {}
            /\ r.post[NAME].initiators = DesiredInitiators

\* C7: a run in check mode issues no mutating call and leaves the igroups
\* alone; its changed is the changed of the run without check mode from the
\* same igroups and parameters, and it fails only if that run fails.
C7_CheckMode ==
    \A i \in 1..Len(runs) :
        LET r == runs[i]
            n == apply(r.pre, module_params, rest_api, FALSE)
        IN  r.check_mode =>
              /\ r.calls = <<>>
              /\ r.post = r.pre
              /\ r.changed = n.changed
              /\ r.failed => n.failed
              /\ ~n.failed => ~r.failed

\* A check-mode run that reports changed where the real run issues calls.
C7_Witness ==
    \E i \in 1..Len(runs) :
        LET r == runs[i]
            n == apply(r.pre, module_params, rest_api, FALSE)
        IN  /\ r.check_mode /\ r.changed /\ ~r.failed
            /\ ~n.failed /\ Len(n.calls) > 1

\* C9: with the initiators option omitted, a run with state=present, not in
\* check mode, on an existing igroup issues no initiator add and no initiator
\* remove, and the igroup keeps its initiators.
C9_InitiatorsLeftAlone ==
    \A i \in 1..Len(runs) :
        LET r == runs[i]
        IN  (Present /\ ~Given("initiators") /\ Source(r) # {} /\ ~r.check_mode) =>
              /\ AddCalls(r) = {} /\ RemoveCalls(r) = {}
              /\ \A n \in DOMAIN r.post :
                    \A m \in Source(r) :
                        r.post[n].uuid = r.pre[m].uuid =>
                            r.post[n].initiators = r.pre[m].initiators

\* The attributes of a modification that the transport cannot modify.
Unsupported(r) ==
    IF r.modify = NoneDict THEN {}
    ELSE IF r.use_rest
    THEN DOMAIN r.modify \ {"initiators", "name", "os_type", "bind_portset"}
    ELSE DOMAIN r.modify \ {"initiators", "name"}

\* C10: when the modification holds an attribute the transport cannot
\* modify, apply fails with the 'modifying ... is not supported' error of the
\* transport and no mutating call of the run has been issued.
C10_RejectedBeforeChange ==
    \A i \in 1..Len(runs) :
        LET r == runs[i]
        IN  Unsupported(r) # {} =>
              /\ r.failed
              /\ r.msg = IF r.use_rest
                         THEN "Error: modifying is not supported in REST"
                         ELSE "Error: modifying is not supported in ZAPI"
              /\ r.calls = <<>>
              /\ r.post = r.pre

\* A rejected modification that came with a rename and a change of initiators.
C10_Witness ==
    \E i \in 1..Len(runs) :
        LET r == runs[i]
        IN  /\ Unsupported(r) # {} /\ ~r.check_mode /\ r.failed
            /\ RenameCase(r)
            /\ "initiators" \in DOMAIN r.modify

\* Neither an igroup called name nor one called from_name exists.
MissingSource(r) ==
    Present /\ Given("from_name") /\ NAME \notin DOMAIN r.pre /\ FROM_NAME \notin DOMAIN r.pre

\* C11: with state=present and from_name given, when neither an igroup
\* called name nor one called from_name exists, apply fails with the
\* from_name not found error and issues no create and no other mutating
\* call, in check mode or not.
C11_MissingSourceFails ==
    \A i \in 1..Len(runs) :
        LET r == runs[i]
        IN  MissingSource(r) =>
              /\ r.failed
              /\ r.msg = "Error: igroup with from_name not found"
              /\ r.calls = <<>>
              /\ r.post = r.pre

\* A run outside check mode, under REST with os_type given, finds neither
\* igroup; a create would have been possible.
C11_Witness ==
    /\ Len(runs) >= 1
    /\ MissingSource(runs[1])
    /\ ~runs[1].check_mode /\ runs[1].use_rest /\ Given("os_type")
    /\ runs[1].failed

\* state=present, the igroup called name is missing, no rename is asked
\* for and os_type is not given.
CreateWithoutOsType(r) ==
    Present /\ ~Given("from_name") /\ NAME \notin DOMAIN r.pre /\ ~Given("os_type")

\* C12: when the igroup called name is missing, state=present, no rename
\* applies and os_type is not given, then under REST apply fails with the
\* os_type error and issues no POST nor any other call, in check mode as
\* outside it; under ZAPI, outside check mode, it issues one igroup-create
\* that carries no os_type.
C12_RestCreateNeedsOsType ==
    \A i \in 1..Len(runs) :
        LET r == runs[i]
        IN  CreateWithoutOsType(r) =>
              IF r.use_rest
              THEN /\ r.failed
                   /\ r.msg = "Error: os_type is a required parameter when creating an igroup with REST"
                   /\ r.calls = <<>>
                   /\ r.post = r.pre
              ELSE ~r.check_mode =>
                   /\ Creates(r) = 1
                   /\ r.calls[1].op = "igroup-create"
                   /\ "os_type" \notin DOMAIN r.calls[1].arg

\* A first run under REST in check mode fails for want of os_type, and a
\* second one outside check mode fails in the same way.
C12_Witness ==
    /\ Len(runs) = 2
    /\ CreateWithoutOsType(runs[1])
    /\ runs[1].use_rest /\ runs[1].check_mode /\ runs[1].failed
    /\ runs[2].use_rest /\ ~runs[2].check_mode /\ runs[2].failed

\* Under ZAPI the igroup is created without os_type.
C12_WitnessZapi ==
    /\ Len(runs) >= 1
    /\ CreateWithoutOsType(runs[1])
    /\ ~runs[1].use_rest /\ ~runs[1].check_mode /\ ~runs[1].failed
    /\ NAME \in DOMAIN runs[1].post

\* The PATCH calls that change the name: the rename under REST.
RenamesByPatch(r) ==
    Cardinality({i \in 1..Len(r.calls) :
                    r.calls[i].op = "PATCH igroup" /\ "name" \in DOMAIN r.calls[i].arg})

\* modify is empty or None: apply invokes neither remove_initiators nor
\* modify_igroup_rest.
NoModify(r) == r.modify = NoneDict \/ DOMAIN r.modify = {}

\* C13: in every run at most one of create, rename and delete is issued;
\* a run that issues a create or a delete invokes neither remove_initiators
\* nor modify_igroup_rest, and issues no call that removes an initiator and
\* no PATCH; and a run that reports changed=false has issued no call.
C13_OneAction ==
    \A i \in 1..Len(runs) :
        LET r == runs[i]
        IN  /\ Creates(r) + Renames(r) + RenamesByPatch(r) + Deletes(r) <= 1
            /\ (Creates(r) > 0 \/ Deletes(r) > 0) =>
                  (NoModify(r) /\ RemoveCalls(r) = {} /\ Patches(r) = 0)
            /\ (~r.failed /\ ~r.changed) => r.calls = <<>>

\* A first run renames and removes an initiator; a second one reports
\* changed=false.
C13_Witness ==
    /\ Len(runs) = 2
    /\ Renames(runs[1]) = 1 /\ RemoveCalls(runs[1]) # {} /\ ~runs[1].failed
    /\ ~runs[2].check_mode /\ ~runs[2].failed /\ ~runs[2].changed

\* A run deletes an igroup that has initiators.
C13_WitnessDelete ==
    /\ Len(runs) >= 1
    /\ Deletes(runs[1]) = 1 /\ ~runs[1].failed
    /\ runs[1].pre[NAME].initiators # {}

(***************************************************************************)
(* Properties of azure_rm_netapp_volume                                    *)
(***************************************************************************)
AzGiven(option) == az_params[option] # {}
AzValue(option) == CHOOSE v \in az_params[option] : TRUE
AzPresent == az_params.state = {"present"}

AzCreates(r) == CountCalls(r.calls, {"create_or_update"})
AzDeletes(r) == CountCalls(r.calls, {"delete"})

\* C4: with state=present, when the module exits successfully and not in
\* check mode, the volume exists and has the requested size, service level
\* and protocol types, each when given.
C4_RequestedConfiguration ==
    \A i \in 1..Len(az_runs) :
        LET r == az_runs[i]
        IN  (AzPresent /\ ~r.check_mode /\ ~r.failed) =>
              /\ r.post # NoVolume
              /\ AzGiven("size") => r.post.usage_threshold = Times(ONE_GIB, AzValue("size"))
              /\ AzGiven("service_level") => r.post.service_level = AzValue("service_level")
              /\ AzGiven("protocol_types") => r.post.protocol_types = AzValue("protocol_types")

\* C6: in check mode the module issues no create_or_update and no delete and
\* exits successfully with the changed of the run without check mode; with
\* state=present and no volume it exits with changed=true.
C6_CheckMode ==
    \A i \in 1..Len(az_runs) :
        LET r == az_runs[i]
            n == exec_module(r.pre, az_params, FALSE, TRUE)
        IN  r.check_mode =>
              /\ r.calls = <<>>
              /\ ~n.failed => (~r.failed /\ r.changed = n.changed)
              /\ (AzPresent /\ r.pre = NoVolume) => (~r.failed /\ r.changed)

\* C8: not in check mode, a missing volume with state=present gets exactly
\* one create_or_update and no delete, an existing one with state=absent
\* exactly one delete and no create, the other two cases no call; changed is
\* set exactly when a call was issued; and a run after a successful run that
\* was not in check mode reports changed=false.
C8_ActionSelection ==
    /\ \A i \in 1..Len(az_runs) :
        LET r == az_runs[i]
        IN  ~r.check_mode =>
              /\ (r.pre = NoVolume /\ AzPresent) => (AzCreates(r) = 1 /\ AzDeletes(r) = 0)
              /\ (r.pre # NoVolume /\ ~AzPresent) => (AzDeletes(r) = 1 /\ AzCreates(r) = 0)
              /\ (r.pre = NoVolume <=> ~AzPresent) => r.calls = <<>>
              /\ r.changed <=> r.calls # <<>>
    /\ \A i \in 2..Len(az_runs) :
        (~az_runs[i-1].check_mode /\ ~az_runs[i-1].failed)
            => (~az_runs[i].failed /\ ~az_runs[i].changed /\ az_runs[i].calls = <<>>)

\* A create by a first run, and a second run that reports changed=false.
C8_Witness ==
    /\ Len(az_runs) = 2
    /\ AzPresent /\ az_runs[1].pre = NoVolume
    /\ ~az_runs[1].check_mode /\ ~az_runs[1].failed /\ AzCreates(az_runs[1]) = 1
    /\ ~az_runs[2].check_mode /\ ~az_runs[2].failed /\ ~az_runs[2].changed

\* The bodies of the create_or_update requests of a run.
CreateBodies(r) ==
    {r.calls[i].body : i \in {j \in 1..Len(r.calls) : r.calls[j].op = "create_or_update"}}

\* size GiB in bytes: 1073741824 is 1024^3, so the base-1024 digits of the
\* size, least significant first, move up by three places.
GiBInBytes(size) == <<0, 0, 0>> \o Digits(size)

\* C14: a create request carries usage_threshold = size * 1073741824 when
\* size is given and no usage_threshold when it is not, never a field
\* called size, and service_level and protocol_types, unchanged, exactly
\* when they are given.
C14_SizeConversion ==
    /\ ONE_GIB = 1024 * 1024 * 1024
    /\ \A i \in 1..Len(az_runs) :
         \A body \in CreateBodies(az_runs[i]) :
            /\ "size" \notin DOMAIN body
            /\ "usage_threshold" \in DOMAIN body <=> AzGiven("size")
            /\ AzGiven("size") => body.usage_threshold = GiBInBytes(AzValue("size"))
            /\ \A option \in {"service_level", "protocol_types"} :
                  /\ option \in DOMAIN body <=> AzGiven(option)
                  /\ AzGiven(option) => body[option] = AzValue(option)

\* A create with a size of 2 TiB, whose product carries into the next
\* digit, with protocol_types given and service_level not.
C14_Witness ==
    /\ Len(az_runs) >= 1
    /\ CreateBodies(az_runs[1]) # {}
    /\ AzGiven("size") /\ AzValue("size") = 2048
    /\ AzGiven("protocol_types") /\ ~AzGiven("service_level")
    /\ ~az_runs[1].failed

\* A create without size: the request carries no usage_threshold.
C14_WitnessNoSize ==
    /\ Len(az_runs) >= 1
    /\ CreateBodies(az_runs[1]) # {}
    /\ ~AzGiven("size")

====
